---- MODULE Spec2Model ----
(***************************************************************************)
(* Model of the shore command line: the `bump` version-reference workflow  *)
(* (_bump), the `checks` command (_run_checks) and the helpers they use.   *)
(* Text is modelled as sequences of one-character strings, so that slicing *)
(* and splicing of file contents are the operations the code performs.     *)
(***************************************************************************)
EXTENDS Integers, Sequences, FiniteSets, TLC

\* ------------------------------------------------------------------------
\* Bounds
\* ------------------------------------------------------------------------
\* largest value of a version component drawn as an input
MaxNum == 1
\* largest number of version refs returned by the plugins of one subject
MaxRefs == 2
\* largest number of check results collected by _run_checks
MaxChecks == 3
\* largest number of publish targets of a subject
MaxPublishers == 2
\* largest number of configured tests
MaxTests == 3
\* the most arguments given to `test`
MaxTestNames == 2
\* the most projects of a repository
MaxProjects == 2

\* ------------------------------------------------------------------------
\* Text helpers (Python str slicing)
\* ------------------------------------------------------------------------
Min(a, b) == IF a < b THEN a ELSE b

\* contents[:n] for 0 <= n (slices clamp to the length of the text)
Prefix(s, n) == SubSeq(s, 1, Min(n, Len(s)))

\* contents[n:] for 0 <= n
Suffix(s, n) == SubSeq(s, Min(n, Len(s)) + 1, Len(s))

\* contents[a:b] for 0 <= a, 0 <= b
Slice(s, a, b) == SubSeq(s, Min(a, Len(s)) + 1, Min(b, Len(s)))

DigitChars == <<"0", "1", "2", "3", "4", "5", "6", "7", "8", "9">>

\* str(n) for a natural number n
RECURSIVE Dec(_)
Dec(n) == IF n < 10 THEN <<DigitChars[n + 1]>>
          ELSE Dec(n \div 10) \o <<DigitChars[(n % 10) + 1]>>

DigitValue(c) == CHOOSE d \in 0..9 : DigitChars[d + 1] = c

IsDigit(c) == \E d \in 0..9 : DigitChars[d + 1] = c

IsNumber(s) == Len(s) > 0 /\ \A i \in 1..Len(s) : IsDigit(s[i])

\* int(s) for a text of decimal digits
RECURSIVE ParseNat(_)
ParseNat(s) == IF Len(s) = 0 THEN 0
               ELSE 10 * ParseNat(SubSeq(s, 1, Len(s) - 1)) + DigitValue(s[Len(s)])

\* position of the first occurrence of character c in s, 0 when absent
IndexOf(s, c) == IF \E i \in 1..Len(s) : s[i] = c
                 THEN CHOOSE i \in 1..Len(s) : s[i] = c /\ \A j \in 1..(i - 1) : s[j] # c
                 ELSE 0

\* s.split(c): the list of the parts of s between the occurrences of c
RECURSIVE Split(_, _)
Split(s, c) == LET i == IndexOf(s, c)
               IN IF i = 0 THEN <<s>>
                  ELSE <<SubSeq(s, 1, i - 1)>> \o Split(SubSeq(s, i + 1, Len(s)), c)

\* ------------------------------------------------------------------------
\* Versions (shore.util.version)
\* ------------------------------------------------------------------------
\* A version has major, minor and patch numbers, an optional post-release
\* number (0: absent) and an optional build number (0: absent).
V(ma, mi, pa, po, bu) == [major |-> ma, minor |-> mi, patch |-> pa, post |-> po, build |-> bu]

NoVersion == [major |-> -1, minor |-> -1, patch |-> -1, post |-> -1, build |-> -1]

Versions == { V(ma, mi, pa, po, bu) : ma \in 0..MaxNum, mi \in 0..MaxNum, pa \in 0..MaxNum,
                                      po \in 0..MaxNum, bu \in 0..MaxNum }

\* str(version)
VersionStr(v) ==
  Dec(v.major) \o <<".">> \o Dec(v.minor) \o <<".">> \o Dec(v.patch)
    \o (IF v.post > 0 THEN <<".", "p", "o", "s", "t">> \o Dec(v.post) ELSE <<>>)
    \o (IF v.build > 0 THEN <<"+">> \o Dec(v.build) ELSE <<>>)

PostPrefix == <<"p", "o", "s", "t">>

\* parse_version(text): NoVersion stands for the ValueError of a malformed text
parse_version(s) ==
  LET plus  == IndexOf(s, "+")
      main  == IF plus = 0 THEN s ELSE SubSeq(s, 1, plus - 1)
      btxt  == IF plus = 0 THEN <<>> ELSE SubSeq(s, plus + 1, Len(s))
      parts == Split(main, ".")
      ptxt  == IF Len(parts) = 4 THEN Suffix(parts[4], 4) ELSE <<>>
      ok    == /\ Len(parts) \in {3, 4}
               /\ \A i \in 1..3 : IsNumber(parts[i])
               /\ Len(parts) = 4 => (Prefix(parts[4], 4) = PostPrefix /\ IsNumber(ptxt))
               /\ plus # 0 => IsNumber(btxt)
  IN IF ok THEN V(ParseNat(parts[1]), ParseNat(parts[2]), ParseNat(parts[3]),
                  ParseNat(ptxt), ParseNat(btxt))
     ELSE NoVersion

\* the comparison key of a version: the build number takes no part in it
VersionKey(v) == <<v.major, v.minor, v.patch, v.post>>

\* a == b on versions
VersionEq(a, b) == VersionKey(a) = VersionKey(b)

\* a < b on versions: lexicographic on the comparison key
VersionLt(a, b) ==
  \/ a.major < b.major
  \/ a.major = b.major /\ a.minor < b.minor
  \/ a.major = b.major /\ a.minor = b.minor /\ a.patch < b.patch
  \/ a.major = b.major /\ a.minor = b.minor /\ a.patch = b.patch /\ a.post < b.post

BumpKinds == {"post", "patch", "minor", "major"}

\* bump_version(version, kind)
bump_version(v, kind) ==
  CASE kind = "post"  -> V(v.major, v.minor, v.patch, v.post + 1, 0)
    [] kind = "patch" -> V(v.major, v.minor, v.patch + 1, 0, 0)
    [] kind = "minor" -> V(v.major, v.minor + 1, 0, 0, 0)
    [] kind = "major" -> V(v.major + 1, 0, 0, 0, 0)


\* ------------------------------------------------------------------------
\* Inputs
\* ------------------------------------------------------------------------
\* versions a subject carries in the bump workflow: "0.0.1" and "0.1.0.post1"
SubjectVersions == {V(0, 0, 1, 0, 0), V(0, 1, 0, 1, 0)}

\* versions given with --version or derived by get_ci_version:
\* "0.0.1", "0.0.1+1", "0.1.0.post1", "1.0.0"
ArgVersions == {V(0, 0, 1, 0, 0), V(0, 0, 1, 0, 1), V(0, 1, 0, 1, 0), V(1, 0, 0, 0, 0)}

Operations == {"post", "patch", "minor", "major", "version", "show", "ci",
               "get_single_version", "status"}

\* the files of the working directory, by normalized absolute path
Files == {"a", "b", "c", "d"}

\* the file names version refs carry
Paths == {"a", "./a", "b", "c"}

\* os.path.normpath(os.path.abspath(filename))
NormPath(p) == IF p = "./a" THEN "a" ELSE p

\* the text around the version string of each file
FilePrefix(f) == CASE f = "a" -> <<"x">>
                   [] f = "b" -> <<>>
                   [] f = "c" -> <<"v", "=">>
                   [] f = "d" -> <<"z">>

FileSuffix(f) == IF f = "a" THEN <<"y">> ELSE <<>>

\* the text of file f when it carries version v (file d carries none)
FileText(f, v) == IF f = "d" THEN FilePrefix(f)
                  ELSE FilePrefix(f) \o VersionStr(v) \o FileSuffix(f)

\* a file that does not exist in a git tree
Absent == <<"<absent>">>

\* VersionRef(filename, start, end, value)
VersionRef(fs, p, v) ==
  [filename |-> p,
   start    |-> Len(FilePrefix(NormPath(p))),
   end      |-> Len(FilePrefix(NormPath(p))) + Len(VersionStr(v)),
   value    |-> Slice(fs[NormPath(p)], Len(FilePrefix(NormPath(p))),
                      Len(FilePrefix(NormPath(p))) + Len(VersionStr(v)))]

\* all lists of at most n elements of S
RECURSIVE SeqsUpTo(_, _)
SeqsUpTo(S, n) == IF n = 0 THEN {<<>>}
                  ELSE SeqsUpTo(S, n - 1) \cup
                       { Append(q, x) : q \in { r \in SeqsUpTo(S, n - 1) : Len(r) = n - 1 }, x \in S }

CheckLevels == {"INFO", "WARNING", "ERROR"}

\* CheckResult.Level as an ordered enumeration
LevelRank(l) == CASE l = "INFO" -> 0 [] l = "WARNING" -> 1 [] l = "ERROR" -> 2

\* ------------------------------------------------------------------------
\* State
\* ------------------------------------------------------------------------
VARIABLES
  pc,               \* position in the running command
  result,           \* outcome of the command: "running", "0", "1", "None",
                    \* "parser_error", "AssertionError", "RuntimeError"
  args,             \* the parsed command line
  yamls,            \* which of package.yaml, monorepo.yaml exist
  subject,          \* the Package or Monorepo of the current directory
  files,            \* text of each file of the working tree
  files0,           \* text of each file when the command started
  git,              \* [head, index]: texts of the files in HEAD and in the index
  version_refs,     \* local of _bump
  current_version,  \* local of _bump
  new_version,      \* local of _bump
  idx,              \* position of the rewrite loop in version_refs
  log,              \* effects in the order they happened
  checks,           \* check results collected by _run_checks
  status            \* local `status` of _run_checks

VARIABLES
  on_disk           \* what package.yaml and monorepo.yaml hold: the Package and
                    \* the Monorepo they load to, NoSubject for a missing file

VARIABLES
  targets,          \* [builds, publishers, private]: the build targets and the
                    \* publish targets of the subject, each in the order of its
                    \* dict, and whether the subject is marked private
  publishers,       \* local of _publish: the publish targets to run
  queue,            \* the publish targets the loop of _publish has yet to run
  pub_status        \* local `status` of _publish

publishVars == <<targets, publishers, queue, pub_status>>

VARIABLES
  self,             \* the TestCommand: [tests, monorepo]
  tests,            \* local of TestCommand.handle: the set of selected tests
  todo,             \* the tests the loop of handle has yet to run, in its order
  results,          \* local dict of handle, as the sequence of its items
  no_line_prefix    \* local of handle

testVars == <<self, tests, todo, results, no_line_prefix>>

VARIABLES
  repository,       \* the projects of the repository, in the order of
                    \* get_projects_ordered
  pyproject,        \* the pyproject.toml of each project, as it is on disk
  pyproject0,       \* the same when the command started
  backup,           \* the file that atomic_swap has moved away
  lidx,             \* the place of the loop of link_repository in the projects
  num_projects,     \* locals of link_repository
  num_skipped

linkVars == <<repository, pyproject, pyproject0, backup, lidx, num_projects, num_skipped>>

VARIABLES
  run,              \* [n, cmd]: the command that runs, and whether it is the
                    \* first or the second run on the same directory
  first_run,        \* what the first run left: files, git, result, effects
  git0              \* git when the command started

runVars == <<run, first_run, git0>>

\* the state `shore publish` leaves alone
nonPublishVars == <<on_disk, testVars, linkVars, runVars>>

\* the state `slam test` leaves alone
nonTestVars == <<on_disk, publishVars, linkVars, runVars>>

\* the state `slap link` leaves alone
nonLinkVars == <<on_disk, publishVars, testVars, runVars>>

\* the state the commands of `shore bump` and `shore checks` leave alone
otherVars == <<on_disk, publishVars, testVars, linkVars, runVars>>

vars == <<pc, result, args, yamls, subject, files, files0, git, version_refs,
          current_version, new_version, idx, log, checks, status, otherVars>>

\* ------------------------------------------------------------------------
\* git (shore.util.git)
\* ------------------------------------------------------------------------
\* the status letters `git status --porcelain` prints for file f, stripped
PorcelainMode(g, fs, f) ==
  LET untracked == g.index[f] = Absent
      staged    == IF untracked THEN ""
                   ELSE IF g.head[f] = Absent THEN "A"
                   ELSE IF g.head[f] # g.index[f] THEN "M" ELSE ""
      unstaged  == ~untracked /\ fs[f] # g.index[f]
  IN IF untracked THEN "??"
     ELSE IF staged = "A" THEN (IF unstaged THEN "AM" ELSE "A")
     ELSE IF staged = "M" THEN (IF unstaged THEN "MM" ELSE "M")
     ELSE IF unstaged THEN "M" ELSE ""

\* _git.porcelain(): one entry for each file that has a status
porcelain(g, fs) ==
  { [mode |-> PorcelainMode(g, fs, f), filename |-> f] :
      f \in { x \in Files : PorcelainMode(g, fs, x) # "" } }

\* _git.add(filenames)
GitAdd(g, fs, names) ==
  [g EXCEPT !.index = [f \in Files |->
      IF \E i \in 1..Len(names) : NormPath(names[i]) = f THEN fs[f] ELSE g.index[f]]]

\* _git.commit(message)
GitCommit(g) == [g EXCEPT !.head = g.index]

\* ------------------------------------------------------------------------
\* Helpers of the commands
\* ------------------------------------------------------------------------
\* _report_conflict(parser, args, *opts): TRUE when it reports a conflict
_report_conflict(a, opts) == Cardinality(opts \cap a.ops) > 1

\* _load_subject without the refusal of two yaml files
_load_subject_PackageFirst(y) ==
  IF ~y.package /\ ~y.monorepo THEN "parser_error" ELSE "ok"

\* _load_subject(parser): the outcome of loading the subject
_load_subject(y) ==
  IF y.package /\ y.monorepo THEN "RuntimeError"
  ELSE IF ~y.package /\ ~y.monorepo THEN "parser_error"
  ELSE "ok"

\* `return package or monorepo` of _load_subject
LoadedSubject(d) == IF d.package.kind # "None" THEN d.package ELSE d.monorepo

\* sorted(packages, key=lambda x: x.name) for a list of packages
RECURSIVE SortByName(_)
SortByName(ps) ==
  IF Len(ps) = 0 THEN <<>>
  ELSE LET m == CHOOSE i \in 1..Len(ps) : \A j \in 1..Len(ps) : ps[i].name <= ps[j].name
           rest == [k \in 1..(Len(ps) - 1) |-> IF k < m THEN ps[k] ELSE ps[k + 1]]
       IN <<ps[m]>> \o SortByName(rest)

\* concatenation of the lists of a list
RECURSIVE Concat(_)
Concat(ls) == IF Len(ls) = 0 THEN <<>> ELSE Head(ls) \o Concat(Tail(ls))

\* _run_for_subject with the packages in the order of the list
_run_for_subject_Unsorted(s) ==
  IF s.kind = "Monorepo"
  THEN <<s.refs>> \o [k \in 1..Len(s.packages) |-> s.packages[k].refs]
  ELSE <<s.refs>>

\* _run_for_subject(subject, func) with func the refs of a subject's plugins
_run_for_subject(s) ==
  IF s.kind = "Monorepo"
  THEN <<s.refs>> \o [k \in 1..Len(s.packages) |-> SortByName(s.packages)[k].refs]
  ELSE <<s.refs>>

\* the version refs _bump collects for the subject
CollectVersionRefs(s) ==
  IF s.kind = "Monorepo" /\ s.mono_versioning
  THEN Concat(_run_for_subject(s))
  ELSE s.refs

\* MonoVersioningRejected with no guard at all
MonoVersioningRejected_Never(s, force) == FALSE

\* the bump of a package whose version its monorepo manages is refused
MonoVersioningRejected(s, force) ==
  s.kind = "Package" /\ s.has_monorepo /\ s.mono_versioning /\ ~force

\* max(x.level for x in checks)
MaxLevel(cs) == CHOOSE l \in CheckLevels :
                  /\ \E i \in 1..Len(cs) : cs[i] = l
                  /\ \A i \in 1..Len(cs) : LevelRank(cs[i]) <= LevelRank(l)

\* the local `status` of _run_checks for a non-empty list of checks
ChecksStatus(cs, treat_warnings_as_errors) ==
  LET max_level == MaxLevel(cs)
  IN IF max_level = "INFO" THEN 0
     ELSE IF max_level = "WARNING" THEN (IF treat_warnings_as_errors THEN 1 ELSE 0)
     ELSE 1

\* the value _run_checks returns
_run_checks(cs, treat_warnings_as_errors) ==
  IF Len(cs) = 0 THEN 0 ELSE 1

\* OperationError without the test for more than one operation
OperationError_OnlyNone(a) == Cardinality(a.ops) = 0

\* no operation specified, or multiple operations specified
OperationError(a) == Cardinality(a.ops) = 0 \/ Cardinality(a.ops) > 1

\* the operation of a command line that names exactly one
TheOp(a) == CHOOSE o \in a.ops : TRUE

\* IsInconsistent with all() in the place of any()
IsInconsistent_All(refs, s) ==
  \A i \in 1..Len(refs) : ~VersionEq(parse_version(refs[i].value), s.version)

\* any(parse_version(x.value) != subject.version for x in version_refs)
IsInconsistent(refs, s) ==
  \E i \in 1..Len(refs) : ~VersionEq(parse_version(refs[i].value), s.version)

\* ConsistencyOutcome with the test of --force left out
ConsistencyOutcome_NoForce(is_inconsistent, force, get_single_version) ==
  IF is_inconsistent THEN "1"
  ELSE IF get_single_version THEN "0"
  ELSE "continue"

\* the outcome of the consistency check: the exit status it returns, or
\* "continue" when the command goes on
ConsistencyOutcome(is_inconsistent, force, get_single_version) ==
  IF is_inconsistent /\ ~force THEN "1"
  ELSE IF is_inconsistent /\ get_single_version THEN "1"
  ELSE IF get_single_version THEN "0"
  ELSE "continue"

\* StagingHasAdded with all() in the place of any()
StagingHasAdded_All(g, fs) ==
  porcelain(g, fs) # {} /\ \A e \in porcelain(g, fs) : e.mode = "A"

\* any(f.mode == 'A' for f in _git.porcelain())
StagingHasAdded(g, fs) == \E e \in porcelain(g, fs) : e.mode = "A"

\* HasModified without the look at the status: the commit is always made
HasModified_Always(g, fs) == TRUE

\* any(x.mode == 'M' for x in _git.porcelain())
HasModified(g, fs) == \E e \in porcelain(g, fs) : e.mode = "M"

\* BumpedVersion with --post leaving the version as it is
BumpedVersion_PostKeeps(a, cur) ==
  IF "post" \in a.ops THEN cur
  ELSE IF "patch" \in a.ops THEN bump_version(cur, "patch")
  ELSE IF "minor" \in a.ops THEN bump_version(cur, "minor")
  ELSE IF "major" \in a.ops THEN bump_version(cur, "major")
  ELSE parse_version(a.version)

\* the new version of the operations that derive it from the current one
BumpedVersion(a, cur) ==
  IF "post" \in a.ops THEN bump_version(cur, "post")
  ELSE IF "patch" \in a.ops THEN bump_version(cur, "patch")
  ELSE IF "minor" \in a.ops THEN bump_version(cur, "minor")
  ELSE IF "major" \in a.ops THEN bump_version(cur, "major")
  ELSE parse_version(a.version)

\* VersionRejected without the comparison of the texts
VersionRejected_NoTextEq(new, cur, force) == VersionLt(new, cur) /\ ~force

\* the guard on the new version: TRUE when the bump is rejected
VersionRejected(new, cur, force) ==
  \/ VersionLt(new, cur) /\ ~force
  \/ VersionStr(new) = VersionStr(cur) /\ ~force

\* NFiles without the normalization of the file names
NFiles_Raw(refs) == { refs[i].filename : i \in 1..Len(refs) }

\* the set n_files of normalized file names of the refs
NFiles(refs) == { NormPath(refs[i].filename) : i \in 1..Len(refs) }

\* ProceedsAfterChecks with the command ended when _run_checks returns 1
ProceedsAfterChecks_OnlyIfZero(rc) == rc = 0

\* _bump and _update call _run_checks as a statement: whatever it returns,
\* the command goes on
ProceedsAfterChecks(rc) == TRUE

\* IsDry with --dry ignored
IsDry_Never(a) == FALSE

\* args.dry, as the rewrite loop and the tagging test it
IsDry(a) == a.dry

\* Spliced with the contents left as they are
Spliced_Unchanged(contents, ref, new) == contents

\* Spliced with the tail taken as if the new text had the length of the old
Spliced_SameLength(contents, ref, new) ==
  Prefix(contents, ref.start) \o VersionStr(new)
    \o Suffix(contents, ref.start + Len(VersionStr(new)))

\* Spliced with the head taken up to the end of the ref
Spliced_HeadToEnd(contents, ref, new) ==
  Prefix(contents, ref.end) \o VersionStr(new) \o Suffix(contents, ref.end)

\* contents[:ref.start] + str(new_version) + contents[ref.end:]
Spliced(contents, ref, new) ==
  Prefix(contents, ref.start) \o VersionStr(new) \o Suffix(contents, ref.end)

\* ------------------------------------------------------------------------
\* Initial states of `shore bump`
\* ------------------------------------------------------------------------
NoArgs == [ops |-> {}, version |-> <<>>, force |-> FALSE, tag |-> FALSE, dry |-> FALSE,
           skip_checks |-> FALSE, treat_warnings_as_errors |-> FALSE]

NoSubject == [kind |-> "None", has_monorepo |-> FALSE, mono_versioning |-> FALSE,
              version |-> NoVersion, refs |-> <<>>, packages |-> <<>>]

\* the working tree: file a carries version va, files b and c carry version vb
WorkingTree(va, vb) == [f \in Files |-> FileText(f, IF f = "a" THEN va ELSE vb)]

\* the subjects a working tree can hold
Subjects(fs, va, vb) ==
  LET R(p) == VersionRef(fs, p, IF NormPath(p) = "a" THEN va ELSE vb)
      own  == { [k \in 1..Len(q) |-> R(q[k])] : q \in SeqsUpTo({"a", "./a", "b"}, MaxRefs) }
  IN    \* a package of its own, or one of a monorepo without mono versioning
        { [kind |-> "Package", has_monorepo |-> FALSE, mono_versioning |-> FALSE,
           version |-> vb, refs |-> r, packages |-> <<>>] : r \in own }
   \cup { [kind |-> "Package", has_monorepo |-> TRUE, mono_versioning |-> FALSE,
           version |-> vb, refs |-> r, packages |-> <<>>] :
             r \in { x \in own : Len(x) = 1 } }
   \cup \* a package of a monorepo with mono versioning
        { [kind |-> "Package", has_monorepo |-> TRUE, mono_versioning |-> TRUE,
           version |-> vb, refs |-> r, packages |-> <<>>] :
             r \in { x \in own : Len(x) <= 1 } }
   \cup \* a monorepo of two packages, listed out of the order of their names
        { [kind |-> "Monorepo", has_monorepo |-> FALSE, mono_versioning |-> mv,
           version |-> vb, refs |-> r,
           packages |-> << [name |-> 2, refs |-> r2], [name |-> 1, refs |-> r1] >>] :
             mv \in BOOLEAN,
             r  \in {<<>>, <<R("a")>>},
             r2 \in {<<>>, <<R("c")>>},
             r1 \in {<<>>, <<R("b")>>, <<R("./a")>>} }

\* the command lines of `bump` that name exactly one operation
BumpArgs ==
  { [ops |-> {o}, version |-> t, force |-> f, tag |-> g, dry |-> d,
     skip_checks |-> k, treat_warnings_as_errors |-> FALSE] :
       o \in Operations \ {"version"}, t \in {<<>>},
       f \in BOOLEAN, g \in BOOLEAN, d \in BOOLEAN, k \in BOOLEAN }
  \cup
  { [ops |-> {"version"}, version |-> VersionStr(v), force |-> f, tag |-> g, dry |-> d,
     skip_checks |-> k, treat_warnings_as_errors |-> FALSE] :
       v \in ArgVersions, f \in BOOLEAN, g \in BOOLEAN, d \in BOOLEAN, k \in BOOLEAN }

\* the command lines of `bump` that name no operation or two of them
BadBumpArgs ==
  { [NoArgs EXCEPT !.ops = os, !.version = IF "version" \in os THEN VersionStr(V(1, 0, 0, 0, 0)) ELSE <<>>,
                   !.force = f] :
       os \in { x \in SUBSET Operations : Cardinality(x) \in {0, 2} }, f \in BOOLEAN }

\* the states of git: everything committed; file d added to the index but
\* not committed; file a not tracked
GitStates(fs) ==
  { [head |-> fs, index |-> fs],
    [head |-> [fs EXCEPT !["d"] = Absent], index |-> fs],
    [head |-> [fs EXCEPT !["a"] = Absent], index |-> [fs EXCEPT !["a"] = Absent]] }

CleanGit(fs) == [head |-> fs, index |-> fs]

\* what the two yaml files hold when the directory holds the subjects S
OnDisk(S) ==
  [package  |-> IF \E s \in S : s.kind = "Package"
                THEN CHOOSE s \in S : s.kind = "Package" ELSE NoSubject,
   monorepo |-> IF \E s \in S : s.kind = "Monorepo"
                THEN CHOOSE s \in S : s.kind = "Monorepo" ELSE NoSubject]

\* one package of its own and one monorepo with mono versioning, each with
\* the one ref of file a
SimpleSubjects(fs, v) ==
  { s \in Subjects(fs, v, v) :
      /\ Len(s.refs) = 1 /\ s.refs[1].filename = "a"
      /\ \/ s.kind = "Package" /\ ~s.has_monorepo
         \/ /\ s.kind = "Monorepo" /\ s.mono_versioning
            /\ \A k \in 1..Len(s.packages) : Len(s.packages[k].refs) = 0 }

\* the state of `shore publish` when another command runs
NoPublish ==
  /\ targets = [builds |-> <<>>, publishers |-> <<>>, private |-> FALSE]
  /\ publishers = <<>>
  /\ queue = <<>>
  /\ pub_status = 0

\* no file
NoFile == <<"<none>">>

\* no first run
NoRun == [files |-> <<>>, git |-> <<>>, result |-> "", effects |-> <<>>,
          checks |-> <<>>, skip_checks |-> FALSE]

\* a command that is run once
OneRun(cmd) ==
  /\ run = [n |-> 1, cmd |-> cmd]
  /\ first_run = NoRun

\* the state of `slap link` when another command runs
NoLink ==
  /\ repository = <<>>
  /\ pyproject = <<>>
  /\ pyproject0 = <<>>
  /\ backup = NoFile
  /\ lidx = 0
  /\ num_projects = 0
  /\ num_skipped = 0

\* the state of `slam test` when another command runs
NoTest ==
  /\ self = [tests |-> <<>>, monorepo |-> FALSE]
  /\ tests = {}
  /\ todo = <<>>
  /\ results = <<>>
  /\ no_line_prefix = FALSE

InitLocals ==
  /\ result = "running"
  /\ version_refs = <<>>
  /\ current_version = NoVersion
  /\ new_version = NoVersion
  /\ idx = 0
  /\ log = <<>>
  /\ checks = <<>>
  /\ status = -1

Init ==
  /\ pc = "bump"
  /\ OneRun("bump")
  /\ InitLocals
  /\ NoPublish
  /\ NoTest
  /\ NoLink
  /\ \E va \in SubjectVersions, vb \in SubjectVersions :
       /\ files = WorkingTree(va, vb)
       /\ \/ /\ args \in BumpArgs
             /\ \E s \in Subjects(files, va, vb) : on_disk = OnDisk({s})
             /\ git \in IF args.tag THEN GitStates(files) ELSE {CleanGit(files)}
          \/ /\ va = vb
             /\ args \in BadBumpArgs \cup { x \in BumpArgs : x.ops = {"patch"} /\ ~x.tag /\ ~x.dry }
             /\ on_disk \in { OnDisk(S) : S \in SUBSET SimpleSubjects(files, va) }
             /\ git = CleanGit(files)
  /\ yamls = [package |-> on_disk.package.kind # "None", monorepo |-> on_disk.monorepo.kind # "None"]
  /\ subject = NoSubject
  /\ files0 = files
  /\ git0 = git

\* ------------------------------------------------------------------------
\* `shore bump` (_bump)
\* ------------------------------------------------------------------------
\* the command ends with outcome r
Finish(r) == pc' = "done" /\ result' = r

\* conflicting options, the subject and the number of operations
BumpParse ==
  /\ pc = "bump"
  /\ IF \/ _report_conflict(args, {"version", "ci"})
        \/ _report_conflict(args, {"major", "minor", "patch", "version"})
     THEN Finish("parser_error")
     ELSE IF _load_subject(yamls) # "ok" THEN Finish(_load_subject(yamls))
     ELSE IF OperationError(args) THEN Finish("parser_error")
     ELSE pc' = "checks" /\ result' = result
  /\ subject' = IF \/ _report_conflict(args, {"version", "ci"})
                   \/ _report_conflict(args, {"major", "minor", "patch", "version"})
                   \/ _load_subject(yamls) # "ok"
                THEN subject ELSE LoadedSubject(on_disk)
  /\ UNCHANGED <<otherVars, args, yamls, files, files0, git, version_refs,
                 current_version, new_version, idx, log, checks, status>>

\* the checks run before the operation; their outcome is dropped
BumpRunChecks ==
  /\ pc = "checks"
  /\ IF "status" \notin args.ops /\ "get_single_version" \notin args.ops /\ ~args.skip_checks
     THEN /\ log' = Append(log, <<"run_checks">>)
          /\ status' = IF Len(checks) = 0 THEN status ELSE ChecksStatus(checks, TRUE)
          /\ IF ProceedsAfterChecks(_run_checks(checks, TRUE))
             THEN pc' = "operation" /\ result' = result
             ELSE Finish("1")
     ELSE /\ log' = log /\ status' = status
          /\ pc' = "operation" /\ result' = result
  /\ UNCHANGED <<otherVars, args, yamls, subject, files, files0, git, version_refs,
                 current_version, new_version, idx, checks>>

\* --status prints the commits since the tag of each subject
BumpStatus ==
  /\ pc = "operation"
  /\ "status" \in args.ops
  /\ Finish("0")
  /\ UNCHANGED <<otherVars, args, yamls, subject, files, files0, git, version_refs,
                 current_version, new_version, idx, log, checks, status>>

\* the mono versioning guard and the collection of the version refs
BumpCollectRefs ==
  /\ pc = "operation"
  /\ "status" \notin args.ops
  /\ IF MonoVersioningRejected(subject, args.force)
     THEN Finish("parser_error") /\ version_refs' = version_refs
     ELSE /\ version_refs' = CollectVersionRefs(subject)
          /\ IF Len(version_refs') = 0
             THEN Finish("parser_error")
             ELSE pc' = "refs" /\ result' = result
  /\ UNCHANGED <<otherVars, args, yamls, subject, files, files0, git,
                 current_version, new_version, idx, log, checks, status>>

\* --show prints the refs
BumpShow ==
  /\ pc = "refs"
  /\ "show" \in args.ops
  /\ Finish("0")
  /\ UNCHANGED <<otherVars, args, yamls, subject, files, files0, git, version_refs,
                 current_version, new_version, idx, log, checks, status>>

\* the consistency of the refs with the subject's version, --get-single-version
BumpCheckConsistency ==
  /\ pc = "refs"
  /\ "show" \notin args.ops
  /\ LET outcome == ConsistencyOutcome(IsInconsistent(version_refs, subject), args.force,
                                       "get_single_version" \in args.ops)
     IN IF outcome = "continue"
        THEN pc' = "new_version" /\ result' = result
        ELSE Finish(outcome)
  /\ UNCHANGED <<otherVars, args, yamls, subject, files, files0, git, version_refs,
                 current_version, new_version, idx, log, checks, status>>

\* the new version and the guard against a lower or an equal version
BumpNewVersion ==
  /\ pc = "new_version"
  /\ current_version' = subject.version
  /\ \E ci \in ArgVersions :
       new_version' = IF "ci" \in args.ops THEN ci ELSE BumpedVersion(args, current_version')
  /\ IF VersionRejected(new_version', current_version', args.force)
     THEN Finish("parser_error")
     ELSE pc' = "assert_files" /\ result' = result
  /\ UNCHANGED <<otherVars, args, yamls, subject, files, files0, git, version_refs,
                 idx, log, checks, status>>

\* every file is listed only once among the refs
BumpAssertFiles ==
  /\ pc = "assert_files"
  /\ IF Cardinality(NFiles(version_refs)) = Len(version_refs)
     THEN pc' = "rewrite" /\ idx' = 1 /\ result' = result
     ELSE Finish("AssertionError") /\ idx' = idx
  /\ UNCHANGED <<otherVars, args, yamls, subject, files, files0, git, version_refs,
                 current_version, new_version, log, checks, status>>

\* one round of the loop over the refs: the file of the ref is rewritten
BumpRewriteRef ==
  /\ pc = "rewrite"
  /\ idx <= Len(version_refs)
  /\ LET ref == version_refs[idx]
         f   == NormPath(ref.filename)
     IN IF ~IsDry(args)
        THEN /\ files' = [files EXCEPT ![f] = Spliced(files[f], ref, new_version)]
             /\ log' = Append(log, <<"write", f>>)
        ELSE files' = files /\ log' = log
  /\ idx' = idx + 1
  /\ pc' = IF idx = Len(version_refs) THEN "tag" ELSE "rewrite"
  /\ UNCHANGED <<otherVars, result, args, yamls, subject, files0, git, version_refs,
                 current_version, new_version, checks, status>>

\* --tag: refused with added files in the staging area
BumpTagGuard ==
  /\ pc = "tag"
  /\ IF ~args.tag THEN Finish("None")
     ELSE IF StagingHasAdded(git, files) THEN Finish("1")
     ELSE IF IsDry(args) THEN Finish("None")
     ELSE pc' = "git_add" /\ result' = result
  /\ UNCHANGED <<otherVars, args, yamls, subject, files, files0, git, version_refs,
                 current_version, new_version, idx, log, checks, status>>

\* the files of the refs are staged
BumpGitAdd ==
  /\ pc = "git_add"
  /\ LET changed_files == [k \in 1..Len(version_refs) |-> version_refs[k].filename]
     IN /\ git' = GitAdd(git, files, changed_files)
        /\ log' = Append(log, <<"git_add", { NormPath(changed_files[k]) : k \in 1..Len(changed_files) }>>)
  /\ pc' = "git_commit"
  /\ UNCHANGED <<otherVars, result, args, yamls, subject, files, files0, version_refs,
                 current_version, new_version, idx, checks, status>>

\* a commit is made when the status shows a modified file
BumpGitCommit ==
  /\ pc = "git_commit"
  /\ IF HasModified(git, files)
     THEN git' = GitCommit(git) /\ log' = Append(log, <<"git_commit">>)
     ELSE git' = git /\ log' = log
  /\ pc' = "git_tag"
  /\ UNCHANGED <<otherVars, result, args, yamls, subject, files, files0, version_refs,
                 current_version, new_version, idx, checks, status>>

\* the tag of the new version is created
BumpGitTag ==
  /\ pc = "git_tag"
  /\ log' = Append(log, <<"git_tag", new_version, args.force>>)
  /\ Finish("None")
  /\ UNCHANGED <<otherVars, args, yamls, subject, files, files0, git, version_refs,
                 current_version, new_version, idx, checks, status>>

Next ==
  \/ BumpParse
  \/ BumpRunChecks
  \/ BumpStatus
  \/ BumpCollectRefs
  \/ BumpShow
  \/ BumpCheckConsistency
  \/ BumpNewVersion
  \/ BumpAssertFiles
  \/ BumpRewriteRef
  \/ BumpTagGuard
  \/ BumpGitAdd
  \/ BumpGitCommit
  \/ BumpGitTag

Spec == Init /\ [][Next]_vars

\* ------------------------------------------------------------------------
\* `shore checks` (_checks)
\* ------------------------------------------------------------------------
InitChecks ==
  /\ pc = "checks_cmd"
  /\ OneRun("checks")
  /\ NoPublish
  /\ NoTest
  /\ NoLink
  /\ result = "running"
  /\ version_refs = <<>>
  /\ current_version = NoVersion
  /\ new_version = NoVersion
  /\ idx = 0
  /\ log = <<>>
  /\ status = -1
  /\ checks \in SeqsUpTo(CheckLevels, MaxChecks)
  /\ args \in { [NoArgs EXCEPT !.treat_warnings_as_errors = t] : t \in BOOLEAN }
  /\ files = WorkingTree(V(0, 0, 1, 0, 0), V(0, 0, 1, 0, 0))
  /\ files0 = files
  /\ git = CleanGit(files)
  /\ on_disk \in { OnDisk(S) : S \in SUBSET { s \in Subjects(files, V(0, 0, 1, 0, 0), V(0, 0, 1, 0, 0)) :
                                                 s.kind = "Package" /\ ~s.has_monorepo /\ Len(s.refs) = 0 } }
  /\ yamls = [package |-> on_disk.package.kind # "None", monorepo |-> on_disk.monorepo.kind # "None"]
  /\ subject = NoSubject
  /\ git0 = git

\* the subject is loaded and its checks are run
ChecksCmd ==
  /\ pc = "checks_cmd"
  /\ IF _load_subject(yamls) # "ok"
     THEN Finish(_load_subject(yamls)) /\ status' = status /\ subject' = subject
     ELSE /\ subject' = LoadedSubject(on_disk)
          /\ status' = IF Len(checks) = 0 THEN status
                       ELSE ChecksStatus(checks, args.treat_warnings_as_errors)
          /\ pc' = "done"
          /\ result' = IF _run_checks(checks, args.treat_warnings_as_errors) = 0 THEN "0" ELSE "1"
  /\ UNCHANGED <<otherVars, args, yamls, files, files0, git, version_refs,
                 current_version, new_version, idx, log, checks>>

NextChecks == ChecksCmd

SpecChecks == InitChecks /\ [][NextChecks]_vars

\* ------------------------------------------------------------------------
\* The new version of a bump, for all versions within the bound
\* ------------------------------------------------------------------------
InitVersion ==
  /\ pc = "new_version"
  /\ OneRun("bump")
  /\ InitLocals
  /\ NoPublish
  /\ NoTest
  /\ NoLink
  /\ \E v \in Versions, k \in BumpKinds, f \in BOOLEAN :
       /\ args = [NoArgs EXCEPT !.ops = {k}, !.force = f]
       /\ files = WorkingTree(v, v)
       /\ subject \in { s \in Subjects(files, v, v) :
                          s.kind = "Package" /\ ~s.has_monorepo /\ Len(s.refs) = 0 }
  /\ on_disk = OnDisk({subject})
  /\ files0 = files
  /\ git = CleanGit(files)
  /\ yamls = [package |-> TRUE, monorepo |-> FALSE]
  /\ git0 = git

NextVersion == BumpNewVersion

SpecVersion == InitVersion /\ [][NextVersion]_vars

\* ------------------------------------------------------------------------
\* Properties
\* ------------------------------------------------------------------------
GitEffects == {"git_add", "git_commit", "git_tag"}

\* no ref file was written and git was not asked to add, commit or tag
NoWriteNoGit ==
  /\ files = files0
  /\ \A i \in 1..Len(log) : log[i][1] \notin (GitEffects \cup {"write"})

\* the guard on the new version has been evaluated
NewVersionComputed == new_version # NoVersion

\* the new version is lower than the current one, or has the same text
LowerOrEqual == \/ VersionLt(new_version, current_version)
                \/ VersionStr(new_version) = VersionStr(current_version)

\* a collected ref's parsed value differs from the subject's version
RefsDisagree ==
  \E i \in 1..Len(version_refs) :
    ~VersionEq(parse_version(version_refs[i].value), subject.version)

\* the status of git shows a file of mode e
InStatus(e) == \E f \in Files : PorcelainMode(git, files, f) = e

\* C1: without --force, a new version that is lower than the current
\* version, or whose text equals the text of the current version, ends the
\* command with a parser error before any ref file is rewritten and before
\* any git add, commit or tag; with --force neither condition ends the
\* command with a parser error.
C1_VersionGuard ==
  (NewVersionComputed /\ LowerOrEqual) =>
     IF args.force
     THEN result # "parser_error" /\ pc # "new_version"
     ELSE result = "parser_error" /\ pc = "done" /\ NoWriteNoGit

C1_Witness ==
  /\ NewVersionComputed
  /\ ~VersionLt(new_version, current_version)
  /\ VersionStr(new_version) = VersionStr(current_version)
  /\ ~args.force
  /\ result = "parser_error"

\* the consistency check has been evaluated on the collected refs
ConsistencyChecked == Len(version_refs) > 0 /\ "show" \notin args.ops /\ pc # "refs"

\* C2: without --force, when a collected ref's parsed value differs from
\* the subject's version, _bump returns 1 and no ref file is rewritten and
\* git is not asked to add, commit or tag.
C2_InconsistentRefused ==
  (ConsistencyChecked /\ RefsDisagree /\ ~args.force) =>
     (pc = "done" /\ result = "1" /\ NoWriteNoGit /\ ~NewVersionComputed)

C2_Witness ==
  /\ ConsistencyChecked
  /\ ~args.force
  /\ Len(version_refs) = 2
  /\ VersionEq(parse_version(version_refs[2].value), subject.version)
  /\ ~VersionEq(parse_version(version_refs[1].value), subject.version)
  /\ "patch" \in args.ops
  /\ result = "1"

\* the operation of the command line is one that computes a new version
IsBumpOperation == args.ops \cap {"post", "patch", "minor", "major", "version", "ci"} # {}

\* C3 as stated: under --force, every operation that reaches the
\* consistency check with inconsistent refs goes on with the requested
\* operation: --get-single-version prints the version and returns 0, the
\* other operations compute the new version.
C3_Original ==
  (ConsistencyChecked /\ RefsDisagree /\ args.force) =>
     IF "get_single_version" \in args.ops
     THEN result = "0"
     ELSE NewVersionComputed \/ pc = "new_version"

\* C3 as amended: under --force, the operations post, patch, minor, major,
\* explicit version and ci go on to compute the new version when the refs
\* are inconsistent; --get-single-version returns 1 on inconsistent refs
\* also under --force.
C3_ForceDowngrades ==
  (ConsistencyChecked /\ RefsDisagree /\ args.force) =>
     IF "get_single_version" \in args.ops
     THEN pc = "done" /\ result = "1"
     ELSE IsBumpOperation /\ (NewVersionComputed \/ pc = "new_version")

C3_Witness ==
  /\ ConsistencyChecked
  /\ RefsDisagree
  /\ args.force
  /\ "minor" \in args.ops
  /\ NewVersionComputed
  /\ pc = "done"
  /\ result = "None"

\* the refs whose round of the rewrite loop is over
Rewritten == IF idx = 0 THEN {} ELSE 1..(idx - 1)

\* C4: in a bump without --dry, the file of every ref that has been
\* processed holds the text before the ref's start as it was, then the
\* text of the new version, then the text from the ref's end on as it was;
\* a file no ref names keeps its text and is never written.
C4_SpliceFrame ==
  ~args.dry =>
    /\ \A k \in Rewritten :
         LET ref == version_refs[k]
             f   == NormPath(ref.filename)
             n   == Len(VersionStr(new_version))
         IN /\ Len(files[f]) = ref.start + n + (Len(files0[f]) - ref.end)
            /\ \A j \in 1..ref.start : files[f][j] = files0[f][j]
            /\ \A j \in 1..n : files[f][ref.start + j] = VersionStr(new_version)[j]
            /\ \A j \in (ref.end + 1)..Len(files0[f]) :
                 files[f][j - ref.end + ref.start + n] = files0[f][j]
    /\ \A f \in Files :
         (\A k \in 1..Len(version_refs) : NormPath(version_refs[k].filename) # f) =>
            /\ files[f] = files0[f]
            /\ \A i \in 1..Len(log) : log[i] # <<"write", f>>

C4_Witness ==
  /\ ~args.dry
  /\ pc = "done"
  /\ Rewritten = 1..2
  /\ Len(VersionStr(new_version)) # Len(version_refs[1].value)
  /\ Len(FileSuffix(NormPath(version_refs[1].filename))) > 0
  /\ files # files0

\* the text of the file of ref k at the ref's start, of the length of the
\* text of the new version
TextAtRef(k) ==
  Slice(files[NormPath(version_refs[k].filename)], version_refs[k].start,
        version_refs[k].start + Len(VersionStr(new_version)))

\* the bump went through its rewrite loop without --dry and returned
BumpSucceeded == pc = "done" /\ result = "None" /\ NewVersionComputed /\ ~args.dry

\* C5: after a successful bump without --dry, the text of every ref's file
\* at the ref's start is the text of the new version, and parsing it
\* yields the new version, so that all refs agree.
C5_RefsHoldNewVersion ==
  BumpSucceeded =>
    \A k \in 1..Len(version_refs) :
      /\ TextAtRef(k) = VersionStr(new_version)
      /\ parse_version(TextAtRef(k)) = new_version

C5_Witness ==
  /\ BumpSucceeded
  /\ args.force
  /\ Len(version_refs) = 2
  /\ RefsDisagree
  /\ Len(version_refs[1].value) # Len(version_refs[2].value)
  /\ Len(VersionStr(new_version)) # Len(version_refs[1].value)
  /\ Len(VersionStr(new_version)) # Len(version_refs[2].value)

\* two of the collected refs name the same file
HasDuplicateFile ==
  \E i, j \in 1..Len(version_refs) :
    i # j /\ NormPath(version_refs[i].filename) = NormPath(version_refs[j].filename)

\* the number of times file f was written
WriteCount(f) == Cardinality({ i \in 1..Len(log) : log[i] = <<"write", f>> })

\* C6: when two collected refs name the same file, no ref file is rewritten
\* and git is not asked to add, commit or tag, and a command that gets
\* past the guards on the versions ends with the assertion error; in every
\* run, a file is written at most once.
C6_OneRefPerFile ==
  /\ HasDuplicateFile =>
       /\ NoWriteNoGit
       /\ pc \notin {"rewrite", "tag", "git_add", "git_commit", "git_tag"}
       /\ (pc = "done" /\ NewVersionComputed /\ result # "parser_error") => result = "AssertionError"
  /\ \A f \in Files : WriteCount(f) <= 1

C6_Witness ==
  /\ HasDuplicateFile
  /\ version_refs[1].filename # version_refs[2].filename
  /\ result = "AssertionError"
  /\ ~args.dry

\* the effects on git, in the order they happened
RECURSIVE GitLog(_)
GitLog(l) == IF Len(l) = 0 THEN <<>>
             ELSE IF Head(l)[1] \in GitEffects THEN <<Head(l)>> \o GitLog(Tail(l))
             ELSE GitLog(Tail(l))

\* C7: with --tag, when the status of git shows an added file as the
\* command reaches the tagging, the command returns 1 with this step and
\* git has not been and is not asked to add, commit or tag, with and
\* without --dry and --force.
C7_TagRefusedOnAdded ==
  [][(pc = "tag" /\ args.tag /\ InStatus("A")) =>
       (pc' = "done" /\ result' = "1" /\ GitLog(log') = <<>> /\ git' = git)]_vars

C7_Witness ==
  /\ pc = "done"
  /\ result = "1"
  /\ args.tag
  /\ args.dry
  /\ args.force
  /\ NewVersionComputed
  /\ idx > Len(version_refs)
  /\ InStatus("A")

\* the positions of the log that hold an effect of kind e
Positions(e) == { i \in 1..Len(log) : log[i][1] = e }

\* C8: a bump with --tag and without --dry that gets past the guard on
\* the staging area stages exactly the files of the refs, then commits if
\* and only if the status after the staging shows a modified file, then
\* creates the tag of the new version once, forced if and only if --force
\* was given; every write of a ref file precedes the git steps.
C8_TagOrder ==
  /\ [](pc = "git_add" => (args.tag /\ ~args.dry /\ GitLog(log) = <<>>
                           /\ idx > Len(version_refs)
                           /\ Cardinality(Positions("write")) = Len(version_refs)))
  /\ [](pc = "git_commit" => GitLog(log) = << <<"git_add", NFiles(version_refs)>> >>)
  /\ [][pc = "git_commit" =>
          GitLog(log') = IF InStatus("M")
                         THEN GitLog(log) \o << <<"git_commit">> >>
                         ELSE GitLog(log)]_vars
  /\ []((pc = "done" /\ Positions("git_add") # {}) =>
          /\ Cardinality(Positions("git_add")) = 1
          /\ Cardinality(Positions("git_commit")) <= 1
          /\ GitLog(log)[Len(GitLog(log))] = <<"git_tag", new_version, args.force>>
          /\ Cardinality(Positions("git_tag")) = 1
          /\ \A i \in Positions("write"), j \in Positions("git_add") \cup Positions("git_commit")
                                                \cup Positions("git_tag") : i < j
          /\ \A i \in Positions("git_add"), j \in Positions("git_commit") : i < j)
  /\ []((Positions("git_tag") # {} \/ Positions("git_commit") # {}) => Positions("git_add") # {})

C8_Witness ==
  /\ pc = "done"
  /\ Len(version_refs) = 2
  /\ GitLog(log) = << <<"git_add", {"a", "b"}>>, <<"git_commit">>, <<"git_tag", new_version, TRUE>> >>

ExpectedChecksStatus(cs, treat_warnings_as_errors) ==
  IF Len(cs) = 0 THEN "0"
  ELSE IF \E i \in 1..Len(cs) : cs[i] = "ERROR" THEN "1"
  ELSE IF \E i \in 1..Len(cs) : cs[i] = "WARNING"
       THEN (IF treat_warnings_as_errors THEN "1" ELSE "0")
  ELSE "0"

\* C10: `checks` returns 0 when no check is triggered, when the highest
\* level is INFO, or WARNING without --treat-warnings-as-errors, and
\* returns 1 when the highest level is ERROR, or WARNING with
\* --treat-warnings-as-errors.
C10_ChecksExitStatus ==
  (pc = "done" /\ result \in {"0", "1"}) =>
     result = ExpectedChecksStatus(checks, args.treat_warnings_as_errors)

\* the command line names no operation, or two of them
NotOneOperation == Cardinality(args.ops) # 1

\* two of the named operations are in one of the lists of conflicting options
ListedConflict ==
  \/ Cardinality(args.ops \cap {"version", "ci"}) > 1
  \/ Cardinality(args.ops \cap {"major", "minor", "patch", "version"}) > 1

\* C11 as stated: with no operation or with two operations, `bump` ends
\* with a parser error before the checks are run, before a ref file is
\* rewritten and before any git step.
C11_Original ==
  (pc # "bump" /\ NotOneOperation) =>
     (pc = "done" /\ result = "parser_error" /\ log = <<>> /\ NoWriteNoGit)

\* C11 as amended: with no operation or with two operations, `bump` ends
\* before the checks are run, before a ref file is rewritten and before any
\* git step; it ends with a parser error, except that it ends with the
\* RuntimeError of the subject resolver when package.yaml and monorepo.yaml
\* both exist and the operations are in none of the lists of conflicting
\* options.
C11_OneOperation ==
  (pc # "bump" /\ NotOneOperation) =>
     /\ pc = "done" /\ log = <<>> /\ NoWriteNoGit
     /\ result = IF yamls.package /\ yamls.monorepo /\ ~ListedConflict
                 THEN "RuntimeError" ELSE "parser_error"

C11_Witness ==
  /\ pc = "done"
  /\ args.ops = {"post", "major"}
  /\ yamls.package /\ ~yamls.monorepo
  /\ subject.kind = "Package"
  /\ result = "parser_error"

\* ------------------------------------------------------------------------
\* `shore publish` (_publish)
\* ------------------------------------------------------------------------
\* text s starts with text t
StartsWith(s, t) == Len(t) <= Len(s) /\ SubSeq(s, 1, Len(t)) = t

\* _filter_targets(targets, target): the targets named target, or whose
\* name starts with target and a colon, in the order of the dict
_filter_targets(ts, target) ==
  LET keep(x) == target = x.id \/ StartsWith(x.id, target \o <<":">>)
  IN SelectSeq(ts, keep)

\* required_builds.update(selector_builds): a dict keeps the place of a key
\* it already holds
RECURSIVE DictUpdate(_, _)
DictUpdate(d, new) ==
  IF Len(new) = 0 THEN d
  ELSE DictUpdate(IF \E i \in 1..Len(d) : d[i].id = Head(new).id THEN d
                  ELSE Append(d, Head(new)), Tail(new))

\* the loop over the build selectors of a publisher: the required builds,
\* or the failure of a selector that no build satisfies
RECURSIVE CollectBuilds(_, _, _)
CollectBuilds(selectors, builds, required) ==
  IF Len(selectors) = 0 THEN [ok |-> TRUE, required |-> required]
  ELSE LET selector_builds == _filter_targets(builds, Head(selectors))
       IN IF Len(selector_builds) = 0 THEN [ok |-> FALSE, required |-> required]
          ELSE CollectBuilds(Tail(selectors), builds, DictUpdate(required, selector_builds))

\* _needs_build(build): an artifact of the build is not in the build directory
_needs_build(build) == ~build.artifacts_exist

\* the loop over the required builds: the effects in their order, and
\* whether a build raised
RECURSIVE RunBuilds(_, _, _)
RunBuilds(required, reuse, effects) ==
  IF Len(required) = 0 THEN [ok |-> TRUE, effects |-> effects]
  ELSE LET build == Head(required)
       IN IF reuse /\ ~_needs_build(build)
          THEN RunBuilds(Tail(required), reuse, effects)
          ELSE IF build.raises
               THEN [ok |-> FALSE, effects |-> Append(effects, <<"build", build.id>>)]
               ELSE RunBuilds(Tail(required), reuse, Append(effects, <<"build", build.id>>))

\* _run_publisher(name, publisher): whether it returns True, and its effects
_run_publisher(publisher, builds, reuse) ==
  LET collected == CollectBuilds(publisher.selectors, builds, <<>>)
      built     == RunBuilds(collected.required, reuse, <<>>)
  IN IF ~collected.ok THEN [ok |-> FALSE, effects |-> <<>>]
     ELSE IF ~built.ok THEN built
     ELSE [ok |-> ~publisher.raises,
           effects |-> Append(built.effects, <<"publish", publisher.id>>)]

\* RestOfLoop with the loop left at the first publisher that fails
RestOfLoop_StopOnFailure(q, ok) == IF ok THEN Tail(q) ELSE <<>>

\* the publishers the loop has yet to run after it ran the first of q
RestOfLoop(q, ok) == Tail(q)

\* the names of the targets of the model
BuildIds == << <<"s", ":", "w">>, <<"s", ":", "d">> >>

PublisherIds == << <<"w", ":", "a">>, <<"w", ":", "b">>, <<"v">> >>

\* the build selectors a publisher can have: "s", "s:w", "x", and "s:w" with "s"
SelectorLists == { << <<"s">> >>, << <<"s", ":", "w">> >>, << <<"x">> >>,
                   << <<"s", ":", "w">>, <<"s">> >> }

\* the values of the argument `target`: none, "w", "v", "z"
PublishTargets == { <<>>, <<"w">>, <<"v">>, <<"z">> }

InitPublish ==
  /\ pc = "publish"
  /\ OneRun("publish")
  /\ InitLocals
  /\ NoTest
  /\ NoLink
  /\ files = WorkingTree(V(0, 0, 1, 0, 0), V(0, 0, 1, 0, 0))
  /\ files0 = files
  /\ git = CleanGit(files)
  /\ on_disk \in { OnDisk(S) : S \in SUBSET SimpleSubjects(files, V(0, 0, 1, 0, 0)) }
  /\ yamls = [package |-> on_disk.package.kind # "None", monorepo |-> on_disk.monorepo.kind # "None"]
  /\ subject = NoSubject
  /\ \E n \in 0..MaxPublishers, private \in BOOLEAN, r1 \in BOOLEAN, e2 \in BOOLEAN :
       \E sel \in [1..n -> SelectorLists], raises \in [1..n -> BOOLEAN] :
         targets = [builds |-> << [id |-> BuildIds[1], raises |-> r1, artifacts_exist |-> TRUE],
                                  [id |-> BuildIds[2], raises |-> FALSE, artifacts_exist |-> e2] >>,
                    publishers |-> [k \in 1..n |-> [id |-> PublisherIds[k], selectors |-> sel[k],
                                                    raises |-> raises[k]]],
                    private |-> private]
  /\ args \in { [target |-> t, reuse |-> r, test |-> FALSE] : t \in PublishTargets, r \in BOOLEAN }
  /\ (Cardinality({ k \in {"package", "monorepo"} : yamls[k] }) # 1 =>
        (args.target = <<>> /\ ~args.reuse /\ ~targets.private))
  /\ (targets.private => (args.target = <<>> /\ ~args.reuse))
  /\ publishers = <<>>
  /\ queue = <<>>
  /\ pub_status = 0
  /\ git0 = git

\* the subject, its targets, the private mark and the argument `target`
PublishStart ==
  /\ pc = "publish"
  /\ IF _load_subject(yamls) # "ok"
     THEN Finish(_load_subject(yamls)) /\ UNCHANGED <<subject, publishers, queue>>
     ELSE /\ subject' = LoadedSubject(on_disk)
          /\ IF targets.private
             THEN Finish("1") /\ UNCHANGED <<publishers, queue>>
             ELSE LET filtered == IF Len(args.target) > 0
                                  THEN _filter_targets(targets.publishers, args.target)
                                  ELSE targets.publishers
                  IN /\ publishers' = filtered
                     /\ IF Len(args.target) > 0 /\ Len(filtered) = 0
                        THEN Finish("1") /\ queue' = queue
                        ELSE pc' = "publish_loop" /\ result' = result /\ queue' = filtered
  /\ pub_status' = 0
  /\ UNCHANGED <<args, yamls, files, files0, git, version_refs, current_version,
                 new_version, idx, log, checks, status, nonPublishVars, targets>>

\* one round of the loop over the publishers
PublishRunPublisher ==
  /\ pc = "publish_loop"
  /\ Len(queue) > 0
  /\ LET ran == _run_publisher(Head(queue), targets.builds, args.reuse)
     IN /\ log' = (log \o ran.effects) \o << <<"publisher", Head(queue).id, ran.ok>> >>
        /\ pub_status' = IF ~ran.ok THEN 1 ELSE pub_status
        /\ queue' = RestOfLoop(queue, ran.ok)
  /\ UNCHANGED <<pc, result, args, yamls, subject, files, files0, git, version_refs,
                 current_version, new_version, idx, checks, status, nonPublishVars,
                 targets, publishers>>

\* the status is returned
PublishReturn ==
  /\ pc = "publish_loop"
  /\ Len(queue) = 0
  /\ Finish(IF pub_status = 0 THEN "0" ELSE "1")
  /\ UNCHANGED <<args, yamls, subject, files, files0, git, version_refs,
                 current_version, new_version, idx, log, checks, status, otherVars>>

NextPublish ==
  \/ PublishStart
  \/ PublishRunPublisher
  \/ PublishReturn

SpecPublish == InitPublish /\ [][NextPublish]_vars

\* the runs of publishers in the log, in their order
RECURSIVE PublisherRuns(_)
PublisherRuns(l) == IF Len(l) = 0 THEN <<>>
                    ELSE IF Head(l)[1] = "publisher" THEN <<Head(l)>> \o PublisherRuns(Tail(l))
                    ELSE PublisherRuns(Tail(l))

\* the publish targets the argument `target` selects, in the order of the dict
SelectedPublishers ==
  LET keep(x) == \/ Len(args.target) = 0
                 \/ x.id = args.target
                 \/ (Len(x.id) > Len(args.target)
                     /\ SubSeq(x.id, 1, Len(args.target) + 1) = Append(args.target, ":"))
  IN SelectSeq(targets.publishers, keep)

\* `publish` got past the private mark and the argument `target`
LoopReached ==
  /\ subject # NoSubject
  /\ ~targets.private
  /\ (Len(args.target) = 0 \/ Len(SelectedPublishers) > 0)

\* the publisher cannot succeed: its publish step raises, or one of its
\* selectors is satisfied by no build
CannotSucceed(p) ==
  \/ p.raises
  \/ \E i \in 1..Len(p.selectors) : p.selectors[i] = <<"x">>

\* C12 as stated: whenever `publish` returns, every selected publisher was
\* run once, in order, and the command returned 1 if and only if a
\* publisher failed, else 0.
C12_Original ==
  (pc = "done" /\ result \in {"0", "1"}) =>
     LET runs == PublisherRuns(log)
     IN /\ Len(runs) = Len(SelectedPublishers)
        /\ \A k \in 1..Len(runs) : runs[k][2] = SelectedPublishers[k].id
        /\ result = IF \E k \in 1..Len(runs) : ~runs[k][3] THEN "1" ELSE "0"

\* C12: a subject marked private, or an argument `target` that matches no
\* publisher, makes `publish` return 1 with no publisher run and nothing
\* built.  Otherwise every selected publisher is run once, in the order of
\* the dict, whatever the outcome of the publishers before it; a publisher
\* whose publish step raises, or that has a selector no build satisfies,
\* counts as failed; and the command returns 1 if and only if a publisher
\* failed, else 0.
C12_PublishersAllRun ==
  LET runs == PublisherRuns(log)
  IN /\ (pc = "done" /\ subject # NoSubject /\ ~LoopReached) =>
          (result = "1" /\ log = <<>>)
     /\ pc = "publish_loop" =>
          /\ Len(runs) + Len(queue) = Len(SelectedPublishers)
          /\ \A k \in 1..Len(queue) : queue[k] = SelectedPublishers[Len(runs) + k]
     /\ (pc \in {"publish_loop", "done"} /\ LoopReached) =>
          \A k \in 1..Len(runs) :
            /\ runs[k][2] = SelectedPublishers[k].id
            /\ CannotSucceed(SelectedPublishers[k]) => ~runs[k][3]
     /\ (pc = "done" /\ LoopReached) =>
          /\ Len(runs) = Len(SelectedPublishers)
          /\ result = IF \E k \in 1..Len(runs) : ~runs[k][3] THEN "1" ELSE "0"

\* two publishers were run after the first one failed, and the command
\* returned 1
C12_Witness ==
  /\ pc = "done" /\ result = "1" /\ LoopReached
  /\ Len(PublisherRuns(log)) = 2
  /\ ~PublisherRuns(log)[1][3]
  /\ PublisherRuns(log)[2][3]

\* ------------------------------------------------------------------------
\* `slam test` (TestCommand)
\* ------------------------------------------------------------------------
\* the code points of the characters of the model's names
CharRank == [c \in {":", "a", "b", "t", "u", "z"} |->
               CASE c = ":" -> 58 [] c = "a" -> 97 [] c = "b" -> 98
                 [] c = "t" -> 116 [] c = "u" -> 117 [] c = "z" -> 122]

\* s < t for two str of Python
RECURSIVE StrLt(_, _)
StrLt(s, t) ==
  IF Len(t) = 0 THEN FALSE
  ELSE IF Len(s) = 0 THEN TRUE
  ELSE IF Head(s) # Head(t) THEN CharRank[Head(s)] < CharRank[Head(t)]
  ELSE StrLt(Tail(s), Tail(t))

\* the elements of a list
Range(l) == { l[i] : i \in 1..Len(l) }

\* Test.id
TestId(test) == (test.project \o <<":">>) \o test.name

\* _select_tests with the clauses of a monorepo tried outside a monorepo too
_select_tests_AlwaysMonorepo(cmd, name) ==
  { test \in Range(cmd.tests) :
      \/ name = TestId(test)
      \/ (StartsWith(name, <<":">>) /\ test.name = Tail(name))
      \/ test.project = name
      \/ (~cmd.monorepo /\ name = test.name) }

\* TestCommand._select_tests(name): the set `result` before the check that
\* it is not empty
_select_tests(cmd, name) ==
  { test \in Range(cmd.tests) :
      \/ (cmd.monorepo /\ (\/ name = TestId(test)
                           \/ (StartsWith(name, <<":">>) /\ test.name = Tail(name))
                           \/ test.project = name))
      \/ (~cmd.monorepo /\ name = test.name) }

\* `not test_names`; the argument `test` is [none, names]: whether it is
\* None, and the names it lists
NoTestNames(test_names) == test_names.none \/ Len(test_names.names) = 0

\* the names of `test_names` for which _select_tests raises ValueError
Unmatched(cmd, test_names) ==
  { i \in 1..Len(test_names.names) : _select_tests(cmd, test_names.names[i]) = {} }

\* the value of no_line_prefix when the option is not set
DefaultNoLinePrefix(test_names, selected) ==
  ~test_names.none /\ Cardinality(selected) = 1

\* sorted(tests, key=lambda t: t.id)
RECURSIVE SortById(_)
SortById(S) ==
  IF S = {} THEN <<>>
  ELSE LET first == CHOOSE x \in S : \A y \in S \ {x} : ~StrLt(TestId(y), TestId(x))
       IN <<first>> \o SortById(S \ {first})

\* single_project
SingleProject(cmd) == Cardinality({ test.project : test \in Range(cmd.tests) }) = 1

\* the key of a test in `results`, always the name of the test
ResultKey_Name(cmd, test) == test.name

\* the key of a test in `results`, and the name given to its TestRunner
ResultKey(cmd, test) == IF SingleProject(cmd) THEN test.name ELSE TestId(test)

\* results[key] = code, on the items of the dict
DictSet(d, key, code) ==
  IF \E i \in 1..Len(d) : d[i][1] = key
  THEN [i \in 1..Len(d) |-> IF d[i][1] = key THEN <<key, code>> ELSE d[i]]
  ELSE Append(d, <<key, code>>)

\* 0 if set(results.values()) == {0} else 1
TestExit(d) == IF { d[i][2] : i \in 1..Len(d) } = {0} THEN "0" ELSE "1"

\* the ids of the projects and the names of the tests of the model
ProjectIds == { <<"a">>, <<"a", "b">> }

TestNames == { <<"t">>, <<"u">> }

ExitCodes == {0, 1}

\* what load_configuration can return: the tests of each project in turn,
\* no name twice in a project
TestLists ==
  { l \in SeqsUpTo([project : ProjectIds, name : TestNames, exit : ExitCodes], MaxTests) :
      /\ \A i, j \in 1..Len(l) :
           (l[i].project = l[j].project /\ l[i].name = l[j].name) => i = j
      /\ \A i, j, k \in 1..Len(l) :
           (i < j /\ j < k /\ l[i].project = l[k].project) => l[j].project = l[i].project }

\* the arguments of the model: "t", ":t", "a", "a:u", "ab", "z"
TestArguments == { <<"t">>, <<":", "t">>, <<"a">>, <<"a", ":", "u">>, <<"a", "b">>, <<"z">> }

InitTest ==
  /\ pc = "test"
  /\ OneRun("test")
  /\ InitLocals
  /\ NoPublish
  /\ NoLink
  /\ files = WorkingTree(V(0, 0, 1, 0, 0), V(0, 0, 1, 0, 0))
  /\ files0 = files
  /\ git = CleanGit(files)
  /\ on_disk = OnDisk({})
  /\ yamls = [package |-> FALSE, monorepo |-> FALSE]
  /\ subject = NoSubject
  /\ \E l \in TestLists, m \in BOOLEAN :
       /\ (~m => Cardinality({ l[i].project : i \in 1..Len(l) }) <= 1)
       /\ self = [tests |-> l, monorepo |-> m]
  /\ \E names \in SeqsUpTo(TestArguments, MaxTestNames), none \in BOOLEAN,
        opt \in {"NotSet", "True", "False"} :
       /\ (none => Len(names) = 0)
       /\ (opt # "NotSet" => (~none /\ Len(names) <= 1))
       /\ args = [test |-> [none |-> none, names |-> names], no_line_prefix |-> opt]
  /\ tests = {}
  /\ todo = <<>>
  /\ results = <<>>
  /\ no_line_prefix = FALSE
  /\ git0 = git

\* handle up to its loop: the tests are selected and put in order
TestSelect ==
  /\ pc = "test"
  /\ IF Len(self.tests) = 0
     THEN Finish("1") /\ UNCHANGED <<tests, todo, no_line_prefix>>
     ELSE IF ~NoTestNames(args.test) /\ Unmatched(self, args.test) # {}
     THEN Finish("1") /\ UNCHANGED <<tests, todo, no_line_prefix>>
     ELSE LET selected == IF NoTestNames(args.test) THEN Range(self.tests)
                          ELSE UNION { _select_tests(self, args.test.names[i]) :
                                          i \in 1..Len(args.test.names) }
          IN /\ tests' = selected
             /\ no_line_prefix' = IF args.no_line_prefix = "NotSet"
                                  THEN DefaultNoLinePrefix(args.test, selected)
                                  ELSE args.no_line_prefix = "True"
             /\ todo' = SortById(selected)
             /\ pc' = "test_loop"
             /\ result' = result
  /\ UNCHANGED <<args, yamls, subject, files, files0, git, version_refs, current_version,
                 new_version, idx, log, checks, status, nonTestVars, self, results>>

\* one round of the loop: a TestRunner is run and its exit code is kept
TestRun ==
  /\ pc = "test_loop"
  /\ Len(todo) > 0
  /\ LET test == Head(todo)
     IN /\ log' = Append(log, <<"run", ResultKey(self, test), ~no_line_prefix, TestId(test)>>)
        /\ results' = DictSet(results, ResultKey(self, test), test.exit)
  /\ todo' = Tail(todo)
  /\ UNCHANGED <<pc, result, args, yamls, subject, files, files0, git, version_refs,
                 current_version, new_version, idx, checks, status, nonTestVars,
                 self, tests, no_line_prefix>>

\* the summary and the exit code of handle
TestReturn ==
  /\ pc = "test_loop"
  /\ Len(todo) = 0
  /\ Finish(TestExit(results))
  /\ UNCHANGED <<args, yamls, subject, files, files0, git, version_refs,
                 current_version, new_version, idx, log, checks, status, otherVars>>

NextTest ==
  \/ TestSelect
  \/ TestRun
  \/ TestReturn

SpecTest == InitTest /\ [][NextTest]_vars

\* the tests with a run in the log
RanTests == { t \in Range(self.tests) : \E i \in 1..Len(log) : log[i][4] = TestId(t) }

\* handle got past the selection of the tests
TestsSelected == pc = "test_loop" \/ (pc = "done" /\ (tests # {} \/ log # <<>>))

\* C13: every selected test is run exactly once, in the order of the ids,
\* whatever the exit codes of the tests before it; the results hold one
\* entry per selected test; and handle returns 0 if and only if every
\* selected test exited with 0, otherwise 1.
C13_TestsAllRun ==
  /\ TestsSelected =>
       /\ Len(log) + Len(todo) = Cardinality(tests)
       /\ Len(results) = Len(log)
       /\ \A i, j \in 1..Len(log) : i < j => StrLt(log[i][4], log[j][4])
       /\ RanTests \subseteq tests
       /\ \A i \in 1..Len(todo) : todo[i] \in tests \ RanTests
  /\ (pc = "done" /\ TestsSelected) =>
       /\ RanTests = tests
       /\ result = IF \A t \in tests : t.exit = 0 THEN "0" ELSE "1"

\* two projects: the first test failed, the second was run and passed, and
\* handle returned 1
C13_Witness ==
  /\ pc = "done" /\ result = "1"
  /\ Len(log) = 2 /\ Len(results) = 2
  /\ \E t \in tests : TestId(t) = log[1][4] /\ t.exit = 1
  /\ \E t \in tests : TestId(t) = log[2][4] /\ t.exit = 0 /\ t.project # Head(self.tests).project

\* C18 as stated: when the option --no-line-prefix is not given, the lines
\* of the tests are left without prefix if and only if exactly one
\* argument for `test` is specified.
C18_LinePrefixDefault ==
  (TestsSelected /\ args.no_line_prefix = "NotSet") =>
     /\ no_line_prefix <=> (Len(args.test.names) = 1)
     /\ \A i \in 1..Len(log) : log[i][3] = ~no_line_prefix

\* the argument selects the test: in a monorepo by `project:name`, by
\* `:name` or by the id of the project, else by the name of the test
Matches(name, test) ==
  IF self.monorepo
  THEN name \in { (test.project \o <<":">>) \o test.name, <<":">> \o test.name, test.project }
  ELSE name = test.name

\* the tests the arguments ask for
ExpectedTests ==
  IF Len(args.test.names) = 0 THEN Range(self.tests)
  ELSE { t \in Range(self.tests) :
           \E i \in 1..Len(args.test.names) : Matches(args.test.names[i], t) }

\* no test is configured, or an argument matches no test
NothingToRun ==
  \/ Len(self.tests) = 0
  \/ \E i \in 1..Len(args.test.names) :
       \A t \in Range(self.tests) : ~Matches(args.test.names[i], t)

\* C19: with no test configured or an argument that matches no test,
\* handle returns 1 and runs no test; otherwise the selected tests are all
\* the configured tests when no argument is given, else the union of the
\* tests matched by each argument, and these are the tests that are run.
C19_Selection ==
  pc # "test" =>
     IF NothingToRun
     THEN pc = "done" /\ result = "1" /\ log = <<>>
     ELSE /\ tests = ExpectedTests
          /\ RanTests \subseteq ExpectedTests
          /\ pc = "done" => RanTests = ExpectedTests

\* in a monorepo, `:t` and `a:u` selected three tests of two projects
C19_Witness ==
  /\ pc = "done" /\ self.monorepo
  /\ args.test.names = << <<":", "t">>, <<"a", ":", "u">> >>
  /\ Cardinality(tests) = 3 /\ Len(log) = 3

\* the subject is a package of a monorepo with mono versioning
PackageOfMonoVersioning ==
  subject # NoSubject /\ subject.kind = "Package" /\ subject.has_monorepo
  /\ subject.mono_versioning

\* _bump is past the place where it collects the version refs
PastCollect == pc \notin {"bump", "checks", "operation"}

\* C14: for a package of a monorepo with mono versioning and an operation
\* other than --status, _bump without --force ends with a parser error
\* with no version ref collected, no file written and no git operation;
\* with --force and one operation it goes on and collects the refs of the
\* package.
C14_MonoVersioningGuard ==
  (PackageOfMonoVersioning /\ "status" \notin args.ops /\ PastCollect) =>
     IF args.force /\ Cardinality(args.ops) = 1
     THEN version_refs = subject.refs
     ELSE /\ pc = "done" /\ result = "parser_error"
          /\ version_refs = <<>>
          /\ NoWriteNoGit

\* without --force the bump of such a package was refused after the checks
\* had run
C14_Witness ==
  /\ PackageOfMonoVersioning /\ ~args.force /\ args.ops = {"patch"}
  /\ Len(subject.refs) > 0
  /\ pc = "done" /\ result = "parser_error"
  /\ log = << <<"run_checks">> >>

\* the refs of the package of the monorepo with the given name
PackageRefs(name) ==
  (CHOOSE p \in Range(subject.packages) : p.name = name).refs

\* the refs a bump of the subject is to act on
ExpectedRefs ==
  IF subject.kind = "Monorepo" /\ subject.mono_versioning
  THEN (subject.refs \o PackageRefs(1)) \o PackageRefs(2)
  ELSE subject.refs

\* the files that differ from what they were when the command started
ChangedFiles == { f \in Files : files[f] # files0[f] }

\* C15: the refs collected by a bump are the refs of the subject's own
\* plugins, except for a monorepo with mono versioning, where they are the
\* refs of the monorepo, then those of its packages in the order of their
\* names; and a monorepo without mono versioning writes and changes only
\* files that its own refs name.
C15_CollectedRefs ==
  /\ (PastCollect /\ subject # NoSubject /\ Cardinality(args.ops) = 1
      /\ "status" \notin args.ops /\ ~(PackageOfMonoVersioning /\ ~args.force)) =>
        version_refs = ExpectedRefs
  /\ (subject # NoSubject /\ subject.kind = "Monorepo" /\ ~subject.mono_versioning) =>
        LET own == { NormPath(subject.refs[i].filename) : i \in 1..Len(subject.refs) }
        IN /\ ChangedFiles \subseteq own
           /\ \A f \in Files \ own : WriteCount(f) = 0

\* a monorepo with mono versioning whose packages are listed out of the
\* order of their names: the three files were rewritten, the monorepo's
\* first, then that of package 1, then that of package 2
C15_Witness ==
  /\ subject # NoSubject /\ subject.kind = "Monorepo" /\ subject.mono_versioning
  /\ subject.packages[1].name = 2
  /\ pc = "done" /\ result = "None"
  /\ Len(version_refs) = 3
  /\ log = << <<"run_checks">>, <<"write", "a">>, <<"write", "b">>, <<"write", "c">> >>

\* C16: once _bump is past its lists of conflicting options, the subject
\* is the package when only package.yaml exists and the monorepo when only
\* monorepo.yaml exists; with both files the command ends with the
\* RuntimeError and with neither with a parser error, in both cases with no
\* subject; so a command that goes on has exactly one subject.
C16_OneSubject ==
  /\ (pc # "bump" /\ ~ListedConflict) =>
       CASE yamls.package /\ ~yamls.monorepo ->
              subject = on_disk.package /\ subject.kind = "Package"
         [] ~yamls.package /\ yamls.monorepo ->
              subject = on_disk.monorepo /\ subject.kind = "Monorepo"
         [] yamls.package /\ yamls.monorepo ->
              pc = "done" /\ result = "RuntimeError" /\ subject = NoSubject /\ NoWriteNoGit
         [] ~yamls.package /\ ~yamls.monorepo ->
              pc = "done" /\ result = "parser_error" /\ subject = NoSubject /\ NoWriteNoGit
  /\ pc \notin {"bump", "done"} =>
       /\ subject # NoSubject
       /\ yamls.package # yamls.monorepo

\* with both yaml files, a bump with one operation ended with the
\* RuntimeError
C16_Witness ==
  /\ pc = "done" /\ result = "RuntimeError"
  /\ yamls.package /\ yamls.monorepo
  /\ args.ops = {"patch"}
  /\ on_disk.package.kind = "Package" /\ on_disk.monorepo.kind = "Monorepo"

\* ------------------------------------------------------------------------
\* `slap link` (link_repository)
\* ------------------------------------------------------------------------
\* a pyproject.toml is the list of its tables; "project:flit" is the table
\* `project` with the name, version and description that Flit reads

\* _setup_flit_config(module, dist_name, data): the data it leaves, or the
\* KeyError of poetry["version"] without the table tool.poetry
_setup_flit_config(data) ==
  IF "tool.poetry" \notin Range(data) THEN <<"KeyError">>
  ELSE LET kept == SelectSeq(data, LAMBDA x : x \notin {"project", "project:flit"})
           flit == IF "tool.flit" \in Range(data) THEN kept ELSE Append(kept, "tool.flit")
       IN Append(flit, "project:flit")

\* the exit of atomic_swap that keeps the new file when the block succeeds
SwapExit_KeepOnSuccess(old, new, always_revert, raised) ==
  IF raised THEN old ELSE new

\* the file at the path when the block of atomic_swap is left: the file
\* moved away is put back after an exception and under always_revert
SwapExit(old, new, always_revert, raised) ==
  IF raised \/ always_revert THEN old ELSE new

\* the pyproject.toml files of the model
TomlFiles == { <<"tool.poetry">>, <<"tool.poetry", "project">>, <<"tool.flit", "project">> }

\* the projects of the model: whether it is a Python project, the number of
\* its packages, its pyproject.toml and whether the installer raises
Projects ==
  { [is_python_project |-> FALSE, packages |-> 0, toml |-> <<"tool.poetry">>, raises |-> FALSE] }
  \cup [is_python_project : {TRUE}, packages : 0..2, toml : TomlFiles, raises : BOOLEAN]

InitLink ==
  /\ pc = "link"
  /\ OneRun("link")
  /\ InitLocals
  /\ NoPublish
  /\ NoTest
  /\ files = WorkingTree(V(0, 0, 1, 0, 0), V(0, 0, 1, 0, 0))
  /\ files0 = files
  /\ git = CleanGit(files)
  /\ on_disk = OnDisk({})
  /\ yamls = [package |-> FALSE, monorepo |-> FALSE]
  /\ subject = NoSubject
  /\ args \in [dump_pyproject : BOOLEAN, python_found : BOOLEAN]
  /\ repository \in SeqsUpTo(Projects, MaxProjects)
  /\ (~args.python_found => Len(repository) <= 1)
  /\ pyproject = [k \in 1..Len(repository) |-> repository[k].toml]
  /\ pyproject0 = pyproject
  /\ backup = NoFile
  /\ lidx = 0
  /\ num_projects = 0
  /\ num_skipped = 0
  /\ git0 = git

\* the Python executable is looked up
LinkStart ==
  /\ pc = "link"
  /\ IF ~args.python_found THEN Finish("Exception") /\ lidx' = lidx
     ELSE pc' = "link_loop" /\ result' = result /\ lidx' = 1
  /\ UNCHANGED <<args, yamls, subject, files, files0, git, version_refs, current_version,
                 new_version, idx, log, checks, status, nonLinkVars,
                 repository, pyproject, pyproject0, backup, num_projects, num_skipped>>

\* one round of the loop up to the installer: the project is passed over,
\* or dumped, or its pyproject.toml is swapped and saved for Flit
LinkProject ==
  /\ pc = "link_loop"
  /\ lidx <= Len(repository)
  /\ LET project == repository[lidx]
         config  == _setup_flit_config(pyproject[lidx])
         skip    == /\ pc' = pc /\ result' = result /\ lidx' = lidx + 1
                    /\ UNCHANGED <<pyproject, backup>>
     IN IF ~project.is_python_project \/ project.packages = 0
        THEN skip /\ UNCHANGED <<num_projects, num_skipped, log>>
        ELSE /\ num_projects' = num_projects + 1
             /\ IF project.packages > 1
                THEN skip /\ num_skipped' = num_skipped + 1 /\ log' = log
                ELSE /\ num_skipped' = num_skipped
                     /\ IF config = <<"KeyError">>
                        THEN /\ Finish("KeyError")
                             /\ UNCHANGED <<lidx, pyproject, backup, log>>
                        ELSE IF args.dump_pyproject
                        THEN skip /\ log' = Append(log, <<"dump", lidx, config>>)
                        ELSE /\ backup' = pyproject[lidx]
                             /\ pyproject' = [pyproject EXCEPT ![lidx] = config]
                             /\ pc' = "link_install"
                             /\ UNCHANGED <<result, lidx, log>>
  /\ UNCHANGED <<args, yamls, subject, files, files0, git, version_refs, current_version,
                 new_version, idx, checks, status, nonLinkVars,
                 repository, pyproject0>>

\* the installer of Flit runs and the block of atomic_swap is left
LinkInstall ==
  /\ pc = "link_install"
  /\ LET raised == repository[lidx].raises
     IN /\ log' = Append(log, <<"install", lidx, pyproject[lidx]>>)
        /\ pyproject' = [pyproject EXCEPT ![lidx] = SwapExit(backup, pyproject[lidx], TRUE, raised)]
        /\ backup' = NoFile
        /\ IF raised THEN Finish("Exception") /\ lidx' = lidx
           ELSE pc' = "link_loop" /\ result' = result /\ lidx' = lidx + 1
  /\ UNCHANGED <<args, yamls, subject, files, files0, git, version_refs, current_version,
                 new_version, idx, checks, status, nonLinkVars,
                 repository, pyproject0, num_projects, num_skipped>>

\* the exit code of link_repository
LinkReturn ==
  /\ pc = "link_loop"
  /\ lidx > Len(repository)
  /\ Finish(IF num_skipped > 0 /\ num_projects = 1 THEN "1" ELSE "0")
  /\ UNCHANGED <<args, yamls, subject, files, files0, git, version_refs,
                 current_version, new_version, idx, log, checks, status, otherVars>>

NextLink ==
  \/ LinkStart
  \/ LinkProject
  \/ LinkInstall
  \/ LinkReturn

SpecLink == InitLink /\ [][NextLink]_vars

\* the runs of the installer in the log
Installs == { i \in 1..Len(log) : log[i][1] = "install" }

\* C17: outside the run of the installer every pyproject.toml is as it was
\* when the command started, whether the installers before succeeded or
\* raised; while the installer of a project runs, the files of the other
\* projects are as they were and the file moved away is the project's
\* file as it was; with --dump-pyproject no file is ever changed and no
\* installer is run.
C17_PyprojectRestored ==
  /\ pc # "link_install" => (pyproject = pyproject0 /\ backup = NoFile)
  /\ pc = "link_install" =>
       /\ \A k \in 1..Len(pyproject) : k # lidx => pyproject[k] = pyproject0[k]
       /\ backup = pyproject0[lidx]
  /\ args.dump_pyproject => (pyproject = pyproject0 /\ Installs = {} /\ pc # "link_install")

\* the installer of the second project saw a rewritten file and raised,
\* after the installer of the first had succeeded
C17_Witness ==
  /\ pc = "done" /\ result = "Exception"
  /\ Len(log) = 2
  /\ log[1][1] = "install" /\ log[1][3] # pyproject0[1]
  /\ log[2][1] = "install" /\ log[2][3] # pyproject0[2]
  /\ ~repository[1].raises /\ repository[2].raises

\* the command returned 1 at the guard of the tagging
TagRefused ==
  /\ pc = "done" /\ result = "1"
  /\ args.tag /\ NewVersionComputed
  /\ idx > Len(version_refs)

\* C20 as stated: a bump with --tag that is refused for added files in the
\* staging area leaves every file as it was when the command started, and
\* no file has been written.
C20_Original ==
  TagRefused => (files = files0 /\ Positions("write") = {})

\* C20: a bump with --tag that is refused for added files in the staging
\* area has asked nothing of git; with --dry every file is as it was when
\* the command started; without --dry the file of every ref has been
\* written once and holds the text of the new version at the ref, and the
\* files that no ref names are as they were.
C20_RefusedAfterRewrite ==
  TagRefused =>
     /\ InStatus("A")
     /\ GitLog(log) = <<>>
     /\ \A f \in Files \ NFiles(version_refs) : files[f] = files0[f] /\ WriteCount(f) = 0
     /\ IF args.dry
        THEN files = files0 /\ Positions("write") = {}
        ELSE \A k \in 1..Len(version_refs) :
               /\ WriteCount(NormPath(version_refs[k].filename)) = 1
               /\ TextAtRef(k) = VersionStr(new_version)

\* the tagging was refused after the files of two refs had been rewritten
C20_Witness ==
  /\ TagRefused /\ ~args.dry
  /\ Len(version_refs) = 2
  /\ \A k \in 1..2 : files[NormPath(version_refs[k].filename)]
                       # files0[NormPath(version_refs[k].filename)]
  /\ Cardinality(Positions("write")) = 2

\* the command line asks for a dry run or for an operation that only reports
ReadOnlyRun == args.dry \/ args.ops \cap {"show", "status", "get_single_version"} # {}

\* C21: in every run with --dry, --show, --status or --get-single-version,
\* whatever the other flags, no file is written or changed and git is not
\* asked to add, commit or tag; and whenever a file has been written or git
\* has been asked, the command line names one bump operation and no --dry.
C21_ReadOnlyRuns ==
  /\ ReadOnlyRun => (NoWriteNoGit /\ pc \notin {"git_add", "git_commit", "git_tag"})
  /\ ~NoWriteNoGit =>
       /\ ~args.dry
       /\ \E o \in {"post", "patch", "minor", "major", "version", "ci"} : args.ops = {o}

\* a bump with --dry and --tag went through the rewrite loop and the
\* tagging and returned, with no file written and nothing asked of git
C21_Witness ==
  /\ pc = "done" /\ result = "None"
  /\ args.dry /\ args.tag /\ args.ops = {"patch"}
  /\ NewVersionComputed
  /\ idx > Len(version_refs)
  /\ NoWriteNoGit

\* ------------------------------------------------------------------------
\* `shore update` (_update), and a command run twice on the same directory
\* ------------------------------------------------------------------------
\* the files the plugins of the subject render: file d for a package, and
\* for a monorepo file d and then file c
RenderedFiles(s) ==
  IF s.kind = "Monorepo" THEN << [name |-> "d", text |-> <<"r">>], [name |-> "c", text |-> <<"r">>] >>
  ELSE << [name |-> "d", text |-> <<"r">>] >>

\* write_to_disk(file) for each file of the list
RECURSIVE WrittenToDisk(_, _)
WrittenToDisk(fs, rendered) ==
  IF Len(rendered) = 0 THEN fs
  ELSE WrittenToDisk([fs EXCEPT ![Head(rendered).name] = Head(rendered).text], Tail(rendered))

\* the checks of a subject: none, or one of a level
CheckOutcomes == SeqsUpTo(CheckLevels, 1)

\* the subject of _update and its checks
UpdateRunChecks ==
  /\ pc = "update"
  /\ IF _load_subject(yamls) # "ok"
     THEN Finish(_load_subject(yamls)) /\ UNCHANGED <<subject, log, status>>
     ELSE /\ subject' = LoadedSubject(on_disk)
          /\ IF ~args.skip_checks
             THEN /\ log' = Append(log, <<"run_checks">>)
                  /\ status' = IF Len(checks) = 0 THEN status ELSE ChecksStatus(checks, TRUE)
                  /\ IF ProceedsAfterChecks(_run_checks(checks, TRUE))
                     THEN pc' = "update_files" /\ result' = result
                     ELSE Finish("1")
             ELSE /\ log' = log /\ status' = status
                  /\ pc' = "update_files" /\ result' = result
  /\ UNCHANGED <<otherVars, args, yamls, files, files0, git, version_refs,
                 current_version, new_version, idx, checks>>

\* the files are rendered and, without --dry, written
UpdateWriteFiles ==
  /\ pc = "update_files"
  /\ LET rendered == RenderedFiles(subject)
     IN IF ~IsDry(args)
        THEN /\ files' = WrittenToDisk(files, rendered)
             /\ log' = log \o [k \in 1..Len(rendered) |-> <<"write", rendered[k].name>>]
        ELSE files' = files /\ log' = log
  /\ Finish("None")
  /\ UNCHANGED <<otherVars, args, yamls, subject, files0, git, version_refs,
                 current_version, new_version, idx, checks, status>>

\* the writes and the git steps of a log, in their order
RECURSIVE Effects(_)
Effects(l) == IF Len(l) = 0 THEN <<>>
              ELSE IF Head(l)[1] \in (GitEffects \cup {"write"}) THEN <<Head(l)>> \o Effects(Tail(l))
              ELSE Effects(Tail(l))

\* the command is run again on the directory as it was, with the same
\* subject and flags but for --skip-checks, and with checks of any outcome
SecondRun ==
  /\ pc = "done"
  /\ run.n = 1
  /\ first_run' = [files |-> files, git |-> git, result |-> result, effects |-> Effects(log),
                   checks |-> checks, skip_checks |-> args.skip_checks]
  /\ run' = [run EXCEPT !.n = 2]
  /\ pc' = run.cmd
  /\ files' = files0
  /\ git' = git0
  /\ checks' \in CheckOutcomes
  /\ \E k \in BOOLEAN : args' = [args EXCEPT !.skip_checks = k]
  /\ result' = "running"
  /\ subject' = NoSubject
  /\ version_refs' = <<>>
  /\ current_version' = NoVersion
  /\ new_version' = NoVersion
  /\ idx' = 0
  /\ log' = <<>>
  /\ status' = -1
  /\ UNCHANGED <<yamls, files0, git0, on_disk, publishVars, testVars, linkVars>>

\* --ci is left out: its version is read from the commits of git, which the
\* model chooses freely in each run
InitTwoRuns ==
  /\ pc \in {"bump", "update"}
  /\ run = [n |-> 1, cmd |-> pc]
  /\ first_run = NoRun
  /\ NoPublish
  /\ NoTest
  /\ NoLink
  /\ result = "running"
  /\ version_refs = <<>>
  /\ current_version = NoVersion
  /\ new_version = NoVersion
  /\ idx = 0
  /\ log = <<>>
  /\ status = -1
  /\ checks \in CheckOutcomes
  /\ files = WorkingTree(V(0, 0, 1, 0, 0), V(0, 0, 1, 0, 0))
  /\ files0 = files
  /\ on_disk \in { OnDisk({s}) : s \in SimpleSubjects(files, V(0, 0, 1, 0, 0)) }
  /\ yamls = [package |-> on_disk.package.kind # "None", monorepo |-> on_disk.monorepo.kind # "None"]
  /\ subject = NoSubject
  /\ IF pc = "bump"
     THEN args \in { x \in BumpArgs : ~x.force /\ "ci" \notin x.ops }
     ELSE args \in { [NoArgs EXCEPT !.dry = d, !.skip_checks = k] : d \in BOOLEAN, k \in BOOLEAN }
  /\ git \in IF args.tag THEN GitStates(files) ELSE {CleanGit(files)}
  /\ git0 = git

NextTwoRuns ==
  \/ Next
  \/ UpdateRunChecks
  \/ UpdateWriteFiles
  \/ SecondRun

SpecTwoRuns == InitTwoRuns /\ [][NextTwoRuns]_vars

\* C22: when `bump` or `update` is run again on the same directory with
\* the same subject and flags, with or without --skip-checks and with
\* checks of any outcome (nothing, an info, a warning or an error), it
\* ends with the same result, the same files, the same state of git and
\* the same writes and git steps in the same order as the first run.
C22_ChecksNeverDecide ==
  (run.n = 2 /\ pc = "done") =>
       /\ result = first_run.result
       /\ files = first_run.files
       /\ git = first_run.git
       /\ Effects(log) = first_run.effects

\* a bump with --tag whose checks reported an error rewrote, committed and
\* tagged, as did the second run with --skip-checks
C22_Witness ==
  /\ run.n = 2 /\ run.cmd = "bump" /\ pc = "done"
  /\ first_run.checks = <<"ERROR">> /\ ~first_run.skip_checks
  /\ args.skip_checks
  /\ result = "None"
  /\ Len(Effects(log)) = 4
  /\ Effects(log)[4][1] = "git_tag"
  /\ files # files0

====
